---- MODULE Spec2Model ----
(***************************************************************************)
(* Tabbed travel itinerary (luademel): the tab controller, the per-item    *)
(* state store kept in localStorage and the diary aggregator.              *)
(*                                                                         *)
(* The page is one execution context reacting to events, so every handler  *)
(* is one atomic action.  The handlers call one another (openTab calls     *)
(* createPanel, which calls initScheduleItemsForDay, which calls           *)
(* updateDayProgress, ...), so each function of the script is written as   *)
(* an operator from a page state record to a page state record, and an     *)
(* action commits the record its handler ends with.                        *)
(***************************************************************************)
EXTENDS Integers, Sequences, FiniteSets, TLC

VARIABLES
  pc,           \* "loading" before DOMContentLoaded has run, then "ready", or
                \* "failed" when the handler ended on an uncaught exception
  itinerary,    \* the day cards of the document, as parseItinerary reads them
  diaryHtml,    \* the #diary section of the document: "missing", "hidden", "shown"
  anchors,      \* which of #tab-list and #tab-panels the document has
  url,          \* value of the query parameter dia; Null when it is not there
  localStorage, \* [lastDay, item]: the persisted store
  tabs,         \* children of #tab-list, in document order
  panels,       \* children of #tab-panels, in document order
  tabPanels,    \* window.tabPanels: id -> index into panels, 0 when undefined
  ui,           \* per item of a created day panel: closure `saved`, li class, note box
  diary,        \* the diary section: attached, rendered list, hidden class, messages
  focused,      \* index of the tab the latest handler called focus() on, 0 if none
  opened,       \* history: argument of the latest openTab of this session
  lastLoad,     \* history: inputs of the page load, while it is the latest step
  tog,          \* history: run of consecutive completion toggles of one item
  noteEdit      \* history: the note edit the latest step made, if it was one

vars == <<pc, itinerary, diaryHtml, anchors, url, localStorage, tabs, panels, tabPanels,
          ui, diary, focused, opened, lastLoad, tog, noteEdit>>

(***************************************************************************)
(* Bounds and input domains                                                *)
(***************************************************************************)
\* Longest text typed into the note prompt.
MaxNoteLen == 1

\* getItem of a missing key, URLSearchParams without the parameter.
Null == "null"

Chars == {" ", "a"}

PromptTexts == UNION {[1..n -> Chars] : n \in 0..MaxNoteLen}

Day(id, schedule) == [id |-> id, schedule |-> schedule]

\* Documents the page is loaded with: no day card; days 1 and 2, the second
\* without activities; days 1 and 3 (ids with a gap).
Itineraries ==
  { <<>>,
    <<Day(1, <<"act0", "act1">>), Day(2, <<>>)>>,
    <<Day(1, <<"act0">>), Day(3, <<>>)>> }

\* Values the query parameter dia is given by the person opening the page.
UrlValues == {"", "1", "2", "3", "9", "diary"}

\* Every string openTab is ever called with.
IdUniverse == UrlValues

DigitStr == <<"0", "1", "2", "3", "4", "5", "6", "7", "8", "9">>

\* Number.prototype.toString for the small non-negative integers used as ids.
ToStr(n) == DigitStr[n + 1]

(***************************************************************************)
(* Strings                                                                 *)
(***************************************************************************)
RECURSIVE TrimStart(_)
TrimStart(s) ==
  IF s = <<>> THEN s
  ELSE IF Head(s) = " " THEN TrimStart(Tail(s)) ELSE s

RECURSIVE TrimEnd(_)
TrimEnd(s) ==
  IF s = <<>> THEN s
  ELSE IF s[Len(s)] = " " THEN TrimEnd(SubSeq(s, 1, Len(s) - 1)) ELSE s

\* String.prototype.trim
Trim(s) == TrimEnd(TrimStart(s))

(***************************************************************************)
(* Item state entries and their JSON encoding                              *)
(***************************************************************************)
\* The object {completed?, note?}: `fields` are the properties it owns.
EmptyObj == [fields |-> {}, completed |-> FALSE, note |-> <<>>]

Absent == [kind |-> "absent", obj |-> EmptyObj]

\* A stored string that JSON.parse rejects.
Garbage == [kind |-> "garbage", obj |-> EmptyObj]

JSONstringify(o) == [kind |-> "json", obj |-> o]

\* JSON.parse(localStorage.getItem(key)): throws on garbage, null when absent.
JSONparse(v) ==
  [threw |-> v.kind = "garbage", isNull |-> v.kind = "absent", obj |-> v.obj]

\* `saved.completed` / `data.completed` as a condition.
CompletedTruthy(o) == "completed" \in o.fields /\ o.completed

\* `saved.note` / `data.note` as a condition.
NoteTruthy(o) == "note" \in o.fields /\ o.note # <<>>

\* try { saved = JSON.parse(...) || {} } catch { saved = {} }
LoadSaved(v) ==
  LET r == JSONparse(v)
  IN  IF r.threw \/ r.isNull THEN EmptyObj ELSE r.obj

\* The key `day-${dayId}-item-${index}`.
ItemKey(dayId, index) == <<dayId, index>>

\* Number of li elements inside the description of an activity entry
\* (item.html): the entry "actList" describes its activity with a list of
\* one li, every other entry with plain text.
NestedLi(entry) == IF entry = "actList" THEN 1 ELSE 0

RECURSIVE PanelLis(_, _)
\* panel.querySelectorAll('.schedule li') on the panel createPanel builds from
\* a schedule, from entry k (counted from 0) on and in document order: the li
\* of each activity, followed by the li elements of its description.
PanelLis(schedule, k) ==
  IF k >= Len(schedule) THEN <<>>
  ELSE <<[entry |-> k, nested |-> FALSE]>>
       \o [j \in 1..NestedLi(schedule[k + 1]) |-> [entry |-> k, nested |-> TRUE]]
       \o PanelLis(schedule, k + 1)

\* The keys the controls of the day panels use: one per li of listItems.
ItemKeys(it) ==
  UNION { {ItemKey(it[i].id, j) : j \in 0..(Len(PanelLis(it[i].schedule, 0)) - 1)} :
          i \in DOMAIN it }

(***************************************************************************)
(* Page state threaded through the functions of the script                 *)
(***************************************************************************)
Cur ==
  [url |-> url, localStorage |-> localStorage, tabs |-> tabs, panels |-> panels,
   tabPanels |-> tabPanels, ui |-> ui, diary |-> diary, focused |-> focused,
   opened |-> opened, threw |-> FALSE]

\* The handler ends with the page record s (bound once to r).
Commit(s) ==
  \E r \in {s} :
    /\ url' = r.url
    /\ localStorage' = r.localStorage
    /\ tabs' = r.tabs
    /\ panels' = r.panels
    /\ tabPanels' = r.tabPanels
    /\ ui' = r.ui
    /\ diary' = r.diary
    /\ focused' = r.focused
    /\ opened' = r.opened

Min(S) == CHOOSE x \in S : \A y \in S : x <= y

\* Array.prototype.find on itineraryData by d.id.toString() === id: the index
\* of the first day with that id, 0 when find returns undefined.
FindDay(id) ==
  LET hits == {i \in DOMAIN itinerary : ToStr(itinerary[i].id) = id}
  IN  IF hits = {} THEN 0 ELSE Min(hits)

\* The element id "tab-" + x and "panel-" + x.
TabElemId(x) == <<"tab-", x>>

PanelElemId(x) == <<"panel-", x>>

\* tab.id.replace(/^tab-/, '')
GetIdFromTab(tab) == IF tab.id[1] = "tab-" THEN tab.id[2] ELSE tab.id[1]

\* document.getElementById on the tab list: first tab with the id, 0 if none.
TabById(ts, elemId) ==
  LET hits == {i \in DOMAIN ts : ts[i].id = elemId}
  IN  IF hits = {} THEN 0 ELSE Min(hits)

(***************************************************************************)
(* updateDayProgress                                                       *)
(***************************************************************************)
\* Variant: an entry that cannot be parsed counts as completed.
CountsAsCompletedLoose(v) ==
  LET r == JSONparse(v)
  IN  r.threw \/ (~r.isNull /\ CompletedTruthy(r.obj))

\* try { data = JSON.parse(getItem(key)); if (data && data.completed) ... }
CountsAsCompleted(v) ==
  LET r == JSONparse(v)
  IN  ~r.threw /\ ~r.isNull /\ CompletedTruthy(r.obj)

CompletedCount(store, dayId, total) ==
  Cardinality({i \in 0..(total - 1) : CountsAsCompleted(store.item[ItemKey(dayId, i)])})

\* A tab text: `Dia ${day}` alone ("base"), followed by ` (${done}/${total})`
\* ("count") or by a check mark ("check"); "diary" is the text of the diary tab.
BaseLabel(dayId) == [kind |-> "base", day |-> dayId, done |-> 0, total |-> 0]

DiaryLabel == [kind |-> "diary", day |-> 0, done |-> 0, total |-> 0]

\* Variant: the count is shown for a day that is complete too.
ProgressLabelAlwaysCount(dayId, completed, total) ==
  IF total > 0
  THEN [kind |-> "count", day |-> dayId, done |-> completed, total |-> total]
  ELSE BaseLabel(dayId)

\* The text of a day tab: "Dia N", "Dia N (X/Y)" or "Dia N ✓".
ProgressLabel(dayId, completed, total) ==
  IF total > 0
  THEN IF completed = total
       THEN [kind |-> "check", day |-> dayId, done |-> 0, total |-> 0]
       ELSE [kind |-> "count", day |-> dayId, done |-> completed, total |-> total]
  ELSE BaseLabel(dayId)

UpdateDayProgress(s, dayId) ==
  LET d == FindDay(ToStr(dayId))
  IN  IF d = 0 THEN s
      ELSE LET total == Len(itinerary[d].schedule)
               completed == CompletedCount(s.localStorage, dayId, total)
               t == TabById(s.tabs, TabElemId(ToStr(dayId)))
           IN  IF t = 0 THEN s
               ELSE [s EXCEPT !.tabs[t].label = ProgressLabel(dayId, completed, total)]

(***************************************************************************)
(* buildTabs                                                               *)
(***************************************************************************)
NewTab(x, label) == [id |-> TabElemId(x), selected |-> FALSE, label |-> label]

RECURSIVE BuildDayTabs(_, _)
\* itineraryData.forEach: append the tab of day i, then updateDayProgress(day.id).
BuildDayTabs(s, i) ==
  IF i > Len(itinerary) THEN s
  ELSE LET day == itinerary[i]
           s1 == [s EXCEPT !.tabs = Append(s.tabs, NewTab(ToStr(day.id), BaseLabel(day.id)))]
       IN  BuildDayTabs(UpdateDayProgress(s1, day.id), i + 1)

BuildTabs(s) ==
  IF ~anchors.tabList \/ ~anchors.tabPanels THEN s ELSE
  LET s0 == [s EXCEPT !.tabs = <<>>, !.panels = <<>>,
                      !.tabPanels = [x \in IdUniverse |-> 0]]
      s1 == BuildDayTabs(s0, 1)
  IN  IF diaryHtml # "missing"
      THEN [s1 EXCEPT !.tabs = Append(s1.tabs, NewTab("diary", DiaryLabel))]
      ELSE s1

(***************************************************************************)
(* initScheduleItemsForDay and createPanel                                 *)
(***************************************************************************)
\* An li without controls yet; entry is the position in day.schedule of the
\* activity a li with controls belongs to, nested says the li is inside the
\* description of that activity.
NoUi ==
  [saved |-> EmptyObj, completed |-> FALSE, noteDisplay |-> <<>>,
   entry |-> 0 - 1, nested |-> FALSE]

\* What the forEach body builds for one li before any click: the closure
\* `saved`, the class `completed` of the li and the text of its note box.
InitItem(v, li) ==
  LET saved == LoadSaved(v)
  IN  [saved |-> saved,
       completed |-> CompletedTruthy(saved),
       noteDisplay |-> IF NoteTruthy(saved) THEN saved.note ELSE <<>>,
       entry |-> li.entry,
       nested |-> li.nested]

\* listItems.forEach((li, index) => ...), then updateDayProgress(dayId).
InitScheduleItemsForDay(s, dayId) ==
  LET d == FindDay(ToStr(dayId))
      listItems == PanelLis(itinerary[d].schedule, 0)
      mine == {ItemKey(dayId, i) : i \in 0..(Len(listItems) - 1)}
      s1 == [s EXCEPT !.ui = [k \in DOMAIN s.ui |->
                                IF k \in mine
                                THEN InitItem(s.localStorage.item[k], listItems[k[2] + 1])
                                ELSE s.ui[k]]]
  IN  UpdateDayProgress(s1, dayId)

NewPanel(x) == [id |-> PanelElemId(x), active |-> FALSE, hidden |-> FALSE]

CreatePanel(s, id) ==
  IF ~anchors.tabPanels THEN s ELSE
  IF id = "diary"
  THEN LET withSection == diaryHtml # "missing"
           msg == IF withSection THEN (IF s.diary.hidden THEN 1 ELSE 0) ELSE 1
       IN  [s EXCEPT !.diary.attached = withSection,
                     !.diary.msgs = msg,
                     !.panels = Append(s.panels, NewPanel("diary")),
                     !.tabPanels[id] = Len(s.panels) + 1]
  ELSE LET d == FindDay(id)
       IN  IF d = 0 THEN s
           ELSE LET s1 == [s EXCEPT !.panels = Append(s.panels, NewPanel(ToStr(itinerary[d].id)))]
                    s2 == InitScheduleItemsForDay(s1, itinerary[d].id)
                IN  [s2 EXCEPT !.tabPanels[id] = Len(s.panels) + 1]

(***************************************************************************)
(* openTab                                                                 *)
(***************************************************************************)
\* tabs.forEach: aria-selected, tabindex and class active of every tab.
SelectTabs(ts, id) ==
  [i \in DOMAIN ts |-> [ts[i] EXCEPT !.selected = (GetIdFromTab(ts[i]) = id)]]

\* Variant: the panel is built at every activation.
EnsurePanelAlways(s, id) == CreatePanel(s, id)

\* if (!window.tabPanels[id]) createPanel(id)
EnsurePanel(s, id) == IF s.tabPanels[id] = 0 THEN CreatePanel(s, id) ELSE s

\* Object.keys(window.tabPanels).forEach: show the panel of id, hide the others.
ShowPanels(ps, tp, id) ==
  [i \in DOMAIN ps |->
     IF \E k \in DOMAIN tp : tp[k] = i
     THEN [ps[i] EXCEPT !.active = (tp[id] = i), !.hidden = (tp[id] # i)]
     ELSE ps[i]]

\* Variant: lastDay is never written.
PersistLastDayNever(store, id) == store

\* if (id !== 'diary') localStorage.setItem('lastDay', id)
PersistLastDay(store, id) ==
  IF id # "diary" THEN [store EXCEPT !.lastDay = id] ELSE store

\* Variant: the parameter is set for the diary too.
UrlAfterOpenAlwaysSet(id) == id

\* url.searchParams.delete('dia') or set('dia', id), then replaceState.
UrlAfterOpen(id) == IF id = "diary" THEN Null ELSE id

\* tabList.querySelectorAll with tabList null, and window.tabPanels[id] with
\* window.tabPanels never assigned (buildTabs returned before line 131), are
\* TypeErrors that nothing catches.
OpenTab(s, id) ==
  IF ~anchors.tabList THEN [s EXCEPT !.threw = TRUE]
  ELSE LET s1 == [s EXCEPT !.tabs = SelectTabs(s.tabs, id)]
       IN  IF ~anchors.tabPanels THEN [s1 EXCEPT !.threw = TRUE]
           ELSE LET s2 == EnsurePanel(s1, id)
                    s3 == [s2 EXCEPT !.panels = ShowPanels(s2.panels, s2.tabPanels, id)]
                IN  [s3 EXCEPT !.localStorage = PersistLastDay(s3.localStorage, id),
                               !.url = UrlAfterOpen(id),
                               !.opened = id]

(***************************************************************************)
(* restoreLastDay                                                          *)
(***************************************************************************)
\* `!id` for a string or null.
Falsy(x) == x = Null \/ x = ""

\* Variant: the fallback is the last day of the itinerary.
RestoreIdLastDay(dia, stored) ==
  LET id == IF dia # Null THEN dia ELSE stored
  IN  IF Falsy(id)
      THEN IF Len(itinerary) > 0 THEN ToStr(itinerary[Len(itinerary)].id) ELSE "diary"
      ELSE id

RestoreId(dia, stored) ==
  LET id == IF dia # Null THEN dia ELSE stored
  IN  IF Falsy(id)
      THEN IF Len(itinerary) > 0 THEN ToStr(itinerary[1].id) ELSE "diary"
      ELSE id

RestoreLastDay(s) == OpenTab(s, RestoreId(s.url, s.localStorage.lastDay))

(***************************************************************************)
(* updateDiary                                                             *)
(***************************************************************************)
RECURSIVE Orderings(_)
Orderings(S) ==
  IF S = {} THEN {<<>>}
  ELSE UNION {{<<x>> \o o : o \in Orderings(S \ {x})} : x \in S}

\* Orders in which localStorage.key(i) may enumerate the keys the store holds.
KeyOrders(store) ==
  Orderings({k \in DOMAIN store.item : store.item[k].kind # "absent"})

\* Names of stored keys that are no item key of the form day-N-item-I: the
\* key of initTheme, and two names that begin like an item key.
OtherKeyNames == {"theme", "day-1-item-x"}

\* A key is the pair <<N, I>> for the name day-N-item-I, and <<name>> for
\* any other name.  key.startsWith('day-')
StartsWithDay(key) == Len(key) = 2 \/ key[1] = "day-1-item-x"

\* key.match(/^day-(\d+)-item-(\d+)$/)
MatchesItemKey(key) == Len(key) = 2

RECURSIVE CollectEntries(_, _, _)
\* The for loop over the keys: one {day, note} per parsable entry with a note.
CollectEntries(store, ord, i) ==
  IF i > Len(ord) THEN <<>>
  ELSE LET r == JSONparse(store.item[ord[i]])
           rest == CollectEntries(store, ord, i + 1)
       IN  IF /\ StartsWithDay(ord[i])
              /\ ~r.threw /\ ~r.isNull /\ NoteTruthy(r.obj)
              /\ MatchesItemKey(ord[i])
           THEN <<[day |-> ord[i][1], note |-> r.obj.note]>> \o rest
           ELSE rest

RECURSIVE InsertByDay(_, _)
InsertByDay(e, sorted) ==
  IF sorted = <<>> THEN <<e>>
  ELSE IF Head(sorted).day <= e.day
       THEN <<Head(sorted)>> \o InsertByDay(e, Tail(sorted))
       ELSE <<e>> \o sorted

\* Variant: the entries are rendered in the order they were collected.
SortByDayNone(es) == es

RECURSIVE SortByDay(_)
\* entries.sort((a, b) => a.day - b.day), a stable sort.
SortByDay(es) ==
  IF es = <<>> THEN <<>>
  ELSE InsertByDay(es[Len(es)], SortByDay(SubSeq(es, 1, Len(es) - 1)))

\* The enumeration orders a call of updateDiary on s can tell apart: it reads
\* the keys only while the diary section is in the document.
OrdersRead(s) ==
  IF s.diary.attached THEN KeyOrders(s.localStorage)
  ELSE {CHOOSE o \in KeyOrders(s.localStorage) : TRUE}

UpdateDiary(s, ord) ==
  IF ~s.diary.attached THEN s
  ELSE LET entries == SortByDay(CollectEntries(s.localStorage, ord, 1))
           s1 == [s EXCEPT !.diary.list = entries,
                           !.diary.hidden = (Len(entries) = 0)]
       IN  IF s1.tabPanels["diary"] # 0
           THEN [s1 EXCEPT !.diary.msgs =
                   (IF s.diary.msgs > 0 THEN s.diary.msgs - 1 ELSE 0)
                   + (IF Len(entries) = 0 THEN 1 ELSE 0)]
           ELSE s1

(***************************************************************************)
(* handleTabKeyNav                                                         *)
(***************************************************************************)
Keys == {"ArrowRight", "Right", "ArrowLeft", "Left", "Home", "End",
         "Enter", " ", "Spacebar", "a"}

\* The % of JavaScript: the result takes the sign of the dividend.
JsRem(a, b) == IF a >= 0 THEN a % b ELSE 0 - ((0 - a) % b)

\* tabs.findIndex(aria-selected === 'true'), counted from 0; -1 when none.
CurrentIndex(ts) ==
  LET hits == {i \in DOMAIN ts : ts[i].selected}
  IN  IF hits = {} THEN 0 - 1 ELSE Min(hits) - 1

\* Variant: the arrows stop at the ends of the tab list.
NewIndexNoWrap(key, currentIndex, n) ==
  CASE key \in {"ArrowRight", "Right"} -> currentIndex + 1
    [] key \in {"ArrowLeft", "Left"} -> currentIndex - 1
    [] key = "Home" -> 0
    [] key = "End" -> n - 1
    [] OTHER -> currentIndex

\* The switch on e.key for the keys that move: the new index, before clamping.
NewIndex(key, currentIndex, n) ==
  CASE key \in {"ArrowRight", "Right"} -> JsRem(currentIndex + 1, n)
    [] key \in {"ArrowLeft", "Left"} -> JsRem(currentIndex - 1 + n, n)
    [] key = "Home" -> 0
    [] key = "End" -> n - 1
    [] OTHER -> currentIndex

Clamp(i, n) == IF i < 0 THEN 0 ELSE IF i >= n THEN n - 1 ELSE i

ActivationKeys == {"Enter", " ", "Spacebar"}

\* Tabs a key event is dispatched to.  Any tab can hold the focus (the pointer
\* gives it without a click); only the activation keys read e.target, so for
\* the other keys the first tab stands for all of them.
EventTargets(key) == IF key \in ActivationKeys THEN DOMAIN tabs ELSE DOMAIN tabs \cap {1}

\* Variant: Enter and space activate the selected tab again.
HandleTabKeyNavSelected(s, key, target) ==
  LET n == Len(s.tabs)
  IN  IF n = 0 THEN s
      ELSE IF key \in ActivationKeys
           THEN OpenTab(s, GetIdFromTab(s.tabs[Clamp(CurrentIndex(s.tabs), n) + 1]))
           ELSE IF key \in {"ArrowRight", "Right", "ArrowLeft", "Left", "Home", "End"}
                THEN LET newIndex == Clamp(NewIndex(key, CurrentIndex(s.tabs), n), n)
                         s1 == [s EXCEPT !.focused = newIndex + 1]
                     IN  OpenTab(s1, GetIdFromTab(s.tabs[newIndex + 1]))
                ELSE s

\* target: index of the tab the event was dispatched to (the focused tab).
HandleTabKeyNav(s, key, target) ==
  LET n == Len(s.tabs)
  IN  IF n = 0 THEN s
      ELSE IF key \in ActivationKeys
           THEN OpenTab(s, GetIdFromTab(s.tabs[target]))
           ELSE IF key \in {"ArrowRight", "Right", "ArrowLeft", "Left", "Home", "End"}
                THEN LET newIndex == Clamp(NewIndex(key, CurrentIndex(s.tabs), n), n)
                         s1 == [s EXCEPT !.focused = newIndex + 1]
                     IN  OpenTab(s1, GetIdFromTab(s.tabs[newIndex + 1]))
                ELSE s

(***************************************************************************)
(* The click handlers of a day panel                                       *)
(***************************************************************************)
\* Variant: the click marks the item completed instead of toggling it.
DoneClickSetOnly(s, k) ==
  LET saved == [s.ui[k].saved EXCEPT !.fields = @ \cup {"completed"}, !.completed = TRUE]
      s1 == [s EXCEPT !.ui[k].completed = TRUE,
                      !.ui[k].saved = saved,
                      !.localStorage.item[k] = JSONstringify(saved)]
  IN  UpdateDayProgress(s1, k[1])

\* Variant: the click does not recount the progress of the day.
DoneClickNoRecount(s, k) ==
  LET now == ~s.ui[k].completed
      saved == [s.ui[k].saved EXCEPT !.fields = @ \cup {"completed"}, !.completed = now]
  IN  [s EXCEPT !.ui[k].completed = now,
                !.ui[k].saved = saved,
                !.localStorage.item[k] = JSONstringify(saved)]

\* doneBtn click: toggle the class, copy it into saved, persist, recount.
DoneClick(s, k) ==
  LET now == ~s.ui[k].completed
      saved == [s.ui[k].saved EXCEPT !.fields = @ \cup {"completed"}, !.completed = now]
      s1 == [s EXCEPT !.ui[k].completed = now,
                      !.ui[k].saved = saved,
                      !.localStorage.item[k] = JSONstringify(saved)]
  IN  UpdateDayProgress(s1, k[1])

\* Variant: an empty text leaves the note as it is.
SavedWithNoteKeeps(saved, text) ==
  LET trimmed == Trim(text)
  IN  IF trimmed = <<>> THEN saved
      ELSE [saved EXCEPT !.fields = @ \cup {"note"}, !.note = trimmed]

\* Variant: the text is stored as typed.
SavedWithNoteUntrimmed(saved, text) ==
  IF Trim(text) = <<>>
  THEN [saved EXCEPT !.fields = @ \ {"note"}, !.note = <<>>]
  ELSE [saved EXCEPT !.fields = @ \cup {"note"}, !.note = text]

\* The note the handler leaves in `saved` for the text the prompt returned.
SavedWithNote(saved, text) ==
  LET trimmed == Trim(text)
  IN  IF trimmed = <<>>
      THEN [saved EXCEPT !.fields = @ \ {"note"}, !.note = <<>>]
      ELSE [saved EXCEPT !.fields = @ \cup {"note"}, !.note = trimmed]

\* The page once the handler has shown the note and called setItem.
NoteSaved(s, k, text) ==
  LET saved == SavedWithNote(s.ui[k].saved, text)
  IN  [s EXCEPT !.ui[k].saved = saved,
                !.ui[k].noteDisplay = IF NoteTruthy(saved) THEN saved.note ELSE <<>>,
                !.localStorage.item[k] = JSONstringify(saved)]

\* Variant: a cancelled prompt is taken as an empty text.
NoteClickNullAsEmpty(s, k, answer, ord) ==
  UpdateDiary(NoteSaved(s, k, answer.text), ord)

\* noteBtn click; answer.cancelled is prompt returning null.
NoteClick(s, k, answer, ord) ==
  IF answer.cancelled THEN s
  ELSE UpdateDiary(NoteSaved(s, k, answer.text), ord)

\* The key orders the updateDiary of a note click can meet.
NoteOrders(s, k, answer) ==
  IF answer.cancelled THEN {<<>>} ELSE OrdersRead(NoteSaved(s, k, answer.text))

PromptAnswers ==
  {[cancelled |-> TRUE, text |-> <<>>]}
    \cup {[cancelled |-> FALSE, text |-> x] : x \in PromptTexts}

(***************************************************************************)
(* DOMContentLoaded                                                        *)
(***************************************************************************)
\* The document as served, with the store the session inherits.
FreshPage(dia) ==
  [url |-> dia, localStorage |-> localStorage, tabs |-> <<>>, panels |-> <<>>,
   tabPanels |-> [x \in IdUniverse |-> 0],
   ui |-> [k \in ItemKeys(itinerary) |-> NoUi],
   diary |-> [attached |-> FALSE, list |-> <<>>,
              hidden |-> (diaryHtml = "hidden"), msgs |-> 0],
   focused |-> 0, opened |-> Null, threw |-> FALSE]

\* parseItinerary; diarySection.remove(); updateDiary(); buildTabs(); restoreLastDay().
PageLoad(dia, ord) == RestoreLastDay(BuildTabs(UpdateDiary(FreshPage(dia), ord)))

(***************************************************************************)
(* History variables                                                       *)
(***************************************************************************)
\* fresh: the latest step was a page load; dia, stored: the parameter and the
\* lastDay it read; prev, prevUrl: the selected tab and the parameter dia of the
\* session it ended (Null at the first load).
NoLoad == [fresh |-> FALSE, dia |-> Null, stored |-> Null, prev |-> Null, prevUrl |-> Null]

NoTog == [n |-> 0, key |-> <<0, 0>>, completed0 |-> FALSE, stored0 |-> Absent]

\* The id of the selected tab when exactly one is selected, else Null.
SelectedId(ts) ==
  LET hits == {i \in DOMAIN ts : ts[i].selected}
  IN  IF Cardinality(hits) = 1 THEN GetIdFromTab(ts[CHOOSE i \in hits : TRUE]) ELSE Null

Loaded(dia) ==
  [fresh |-> TRUE, dia |-> dia, stored |-> localStorage.lastDay,
   prev |-> SelectedId(tabs), prevUrl |-> IF pc = "ready" THEN url ELSE Null]

\* cancelled: the latest step was a click on a note button whose prompt was
\* cancelled; on: it was a click on the note button of item key whose prompt
\* was not cancelled; text: what the prompt returned; cleared: it was empty once
\* trimmed; had, done: the store held a non-empty note, a true completed
\* flag, for the item before the click.
NoEdit ==
  [on |-> FALSE, key |-> <<0, 0>>, text |-> <<>>, cleared |-> FALSE,
   had |-> FALSE, done |-> FALSE, cancelled |-> FALSE]

Edited(k, answer) ==
  IF answer.cancelled THEN [NoEdit EXCEPT !.cancelled = TRUE]
  ELSE [on |-> TRUE, key |-> k, text |-> answer.text, cancelled |-> FALSE,
        cleared |-> (Trim(answer.text) = <<>>),
        had |-> (/\ localStorage.item[k].kind = "json"
                 /\ "note" \in localStorage.item[k].obj.fields
                 /\ localStorage.item[k].obj.note # <<>>),
        done |-> (/\ localStorage.item[k].kind = "json"
                  /\ "completed" \in localStorage.item[k].obj.fields
                  /\ localStorage.item[k].obj.completed)]

Toggled(k) ==
  IF tog.n = 1 /\ tog.key = k
  THEN [tog EXCEPT !.n = 2]
  ELSE [n |-> 1, key |-> k, completed0 |-> ui[k].completed,
        stored0 |-> localStorage.item[k]]

(***************************************************************************)
(* Initial states and actions                                              *)
(***************************************************************************)
AllAnchors == [tabList |-> TRUE, tabPanels |-> TRUE]

InitialStores(it) ==
  {[lastDay |-> Null, item |-> f] : f \in [ItemKeys(it) -> {Absent, Garbage}]}

Init ==
  /\ pc = "loading"
  /\ itinerary \in Itineraries
  /\ diaryHtml \in {"missing", "hidden", "shown"}
  /\ anchors = AllAnchors
  /\ url \in UrlValues \cup {Null}
  /\ localStorage \in InitialStores(itinerary)
  /\ tabs = <<>>
  /\ panels = <<>>
  /\ tabPanels = [x \in IdUniverse |-> 0]
  /\ ui = [k \in ItemKeys(itinerary) |-> NoUi]
  /\ diary = [attached |-> FALSE, list |-> <<>>, hidden |-> (diaryHtml = "hidden"), msgs |-> 0]
  /\ focused = 0
  /\ opened = Null
  /\ lastLoad = NoLoad
  /\ tog = NoTog
  /\ noteEdit = NoEdit

\* How the handler of DOMContentLoaded ended.
AfterLoad(s) == IF s.threw THEN "failed" ELSE "ready"

\* The panel of id is in window.tabPanels and displayed.
PanelShown(id) == tabPanels[id] # 0 /\ ~panels[tabPanels[id]].hidden

\* The first load of the page.
DOMContentLoaded ==
  /\ pc = "loading"
  /\ \E ord \in OrdersRead(FreshPage(url)) :
       \E s \in {PageLoad(url, ord)} : Commit(s) /\ pc' = AfterLoad(s)
  /\ lastLoad' = Loaded(url)
  /\ tog' = NoTog
  /\ noteEdit' = NoEdit
  /\ UNCHANGED <<itinerary, diaryHtml, anchors>>

\* The page is closed and opened again, with any value of the parameter dia.
Reload(dia) ==
  /\ pc \in {"ready", "failed"}
  /\ \E ord \in OrdersRead(FreshPage(dia)) :
       \E s \in {PageLoad(dia, ord)} : Commit(s) /\ pc' = AfterLoad(s)
  /\ lastLoad' = Loaded(dia)
  /\ tog' = NoTog
  /\ noteEdit' = NoEdit
  /\ UNCHANGED <<itinerary, diaryHtml, anchors>>

\* Click on the i-th tab: the listener buildTabs gave it.
TabClick(i) ==
  /\ pc = "ready"
  /\ i \in DOMAIN tabs
  /\ LET id == IF i <= Len(itinerary) THEN ToStr(itinerary[i].id) ELSE "diary"
     IN  Commit(OpenTab([Cur EXCEPT !.focused = 0], id))
  /\ lastLoad' = NoLoad
  /\ tog' = NoTog
  /\ noteEdit' = NoEdit
  /\ UNCHANGED <<pc, itinerary, diaryHtml, anchors>>

\* keydown on the tab list while its tab number target has the focus.
KeyDown(key, target) ==
  /\ pc = "ready"
  /\ target \in DOMAIN tabs
  /\ Commit(HandleTabKeyNav([Cur EXCEPT !.focused = 0], key, target))
  /\ lastLoad' = NoLoad
  /\ tog' = NoTog
  /\ noteEdit' = NoEdit
  /\ UNCHANGED <<pc, itinerary, diaryHtml, anchors>>

\* if (day.id > 1): the panel of the day gets the button "Dia anterior".
PrevOffered(day) == day.id > 1

\* if (day.id < window.itineraryData.length): it gets the button "Proximo dia".
NextOffered(day) == day.id < Len(itinerary)

\* Click on "Dia anterior" of the displayed panel of day d (offered when id > 1).
PrevClick(d) ==
  /\ pc = "ready"
  /\ d \in DOMAIN itinerary
  /\ PanelShown(ToStr(itinerary[d].id))
  /\ PrevOffered(itinerary[d])
  /\ Commit(OpenTab([Cur EXCEPT !.focused = 0], ToStr(itinerary[d].id - 1)))
  /\ lastLoad' = NoLoad
  /\ tog' = NoTog
  /\ noteEdit' = NoEdit
  /\ UNCHANGED <<pc, itinerary, diaryHtml, anchors>>

\* Click on "Proximo dia" of the displayed panel of day d (offered when
\* id < itineraryData.length).
NextClick(d) ==
  /\ pc = "ready"
  /\ d \in DOMAIN itinerary
  /\ PanelShown(ToStr(itinerary[d].id))
  /\ NextOffered(itinerary[d])
  /\ Commit(OpenTab([Cur EXCEPT !.focused = 0], ToStr(itinerary[d].id + 1)))
  /\ lastLoad' = NoLoad
  /\ tog' = NoTog
  /\ noteEdit' = NoEdit
  /\ UNCHANGED <<pc, itinerary, diaryHtml, anchors>>

\* Click on the done button of item k of a displayed day panel.
ToggleDone(k) ==
  /\ pc = "ready"
  /\ k \in DOMAIN ui
  /\ PanelShown(ToStr(k[1]))
  /\ Commit(DoneClick([Cur EXCEPT !.focused = 0], k))
  /\ lastLoad' = NoLoad
  /\ tog' = Toggled(k)
  /\ noteEdit' = NoEdit
  /\ UNCHANGED <<pc, itinerary, diaryHtml, anchors>>

\* Click on the note button of item k of a displayed day panel.
EditNote(k, answer) ==
  /\ pc = "ready"
  /\ k \in DOMAIN ui
  /\ PanelShown(ToStr(k[1]))
  /\ \E ord \in NoteOrders(Cur, k, answer) :
       Commit(NoteClick([Cur EXCEPT !.focused = 0], k, answer, ord))
  /\ lastLoad' = NoLoad
  /\ tog' = NoTog
  /\ noteEdit' = Edited(k, answer)
  /\ UNCHANGED <<pc, itinerary, diaryHtml, anchors>>

Next ==
  \/ DOMContentLoaded
  \/ \E dia \in UrlValues \cup {Null} : Reload(dia)
  \/ \E i \in DOMAIN tabs : TabClick(i)
  \/ \E key \in Keys : \E target \in EventTargets(key) : KeyDown(key, target)
  \/ \E d \in DOMAIN itinerary : PrevClick(d)
  \/ \E d \in DOMAIN itinerary : NextClick(d)
  \/ \E k \in DOMAIN ui : ToggleDone(k)
  \/ \E k \in DOMAIN ui, answer \in PromptAnswers : EditNote(k, answer)

Spec == Init /\ [][Next]_vars

(***************************************************************************)
(* updateDiary on the stores it can meet                                   *)
(***************************************************************************)
\* Two days with one activity each, so that notes of two days are aggregated.
DiaryItinerary == <<Day(1, <<"act0">>), Day(2, <<"act0">>)>>

\* The stored text {"note":"a"}.
Noted == JSONstringify([fields |-> {"note"}, completed |-> FALSE, note |-> <<"a">>])

\* The stored text {"completed":true}.
Done == JSONstringify([fields |-> {"completed"}, completed |-> TRUE, note |-> <<>>])

\* day-0-item-0: an item key of a day the document no longer has.
ForeignKey == ItemKey(0, 0)

\* Stores a session can inherit: under every key of the form day-N-item-I
\* nothing, an unparsable text, an object with a note or one without; under
\* every other name nothing or an object with a note.
DiaryStores(it) ==
  {[lastDay |-> Null, item |-> f @@ g] :
     f \in [ItemKeys(it) \cup {ForeignKey} -> {Absent, Garbage, Noted, Done}],
     g \in [{<<n>> : n \in OtherKeyNames} -> {Absent, Noted}]}

\* The variables hold the page record s.
Holds(s) ==
  /\ url = s.url
  /\ tabs = s.tabs
  /\ panels = s.panels
  /\ tabPanels = s.tabPanels
  /\ ui = s.ui
  /\ diary = s.diary
  /\ focused = s.focused
  /\ opened = s.opened

\* The page opened on its diary tab (?dia=diary) over any of these stores.
DiaryInit ==
  /\ pc = "ready"
  /\ itinerary = DiaryItinerary
  /\ diaryHtml \in {"hidden", "shown"}
  /\ anchors = AllAnchors
  /\ localStorage \in DiaryStores(itinerary)
  /\ \E s \in {PageLoad("diary", <<>>)} : Holds(s)
  /\ lastLoad = NoLoad
  /\ tog = NoTog
  /\ noteEdit = NoEdit

\* updateDiary(), as the note handler calls it after setItem.
UpdateDiaryCall ==
  /\ \E ord \in KeyOrders(localStorage) : Commit(UpdateDiary(Cur, ord))
  /\ UNCHANGED <<pc, itinerary, diaryHtml, anchors, lastLoad, tog, noteEdit>>

DiaryNext == UpdateDiaryCall

DiarySpec == DiaryInit /\ [][DiaryNext]_vars

(***************************************************************************)
(* Documents that lack an anchor of the script                             *)
(***************************************************************************)
\* Days 1 and 2, opened without the parameter dia, in a document
\* that may lack #tab-list, #tab-panels or #diary.
AnchorInit ==
  /\ pc = "loading"
  /\ itinerary = <<Day(1, <<"act0", "act1">>), Day(2, <<>>)>>
  /\ diaryHtml \in {"missing", "hidden", "shown"}
  /\ anchors \in [tabList : BOOLEAN, tabPanels : BOOLEAN]
  /\ url = Null
  /\ localStorage \in InitialStores(itinerary)
  /\ tabs = <<>>
  /\ panels = <<>>
  /\ tabPanels = [x \in IdUniverse |-> 0]
  /\ ui = [k \in ItemKeys(itinerary) |-> NoUi]
  /\ diary = [attached |-> FALSE, list |-> <<>>, hidden |-> (diaryHtml = "hidden"), msgs |-> 0]
  /\ focused = 0
  /\ opened = Null
  /\ lastLoad = NoLoad
  /\ tog = NoTog
  /\ noteEdit = NoEdit

AnchorSpec == AnchorInit /\ [][Next]_vars

(***************************************************************************)
(* The note prompt answered with longer texts                              *)
(***************************************************************************)
\* Longest text typed into the note prompt in NoteSpec.
MaxLongNoteLen == 2

LongTexts == UNION {[1..n -> Chars] : n \in 0..MaxLongNoteLen}

LongAnswers ==
  {[cancelled |-> TRUE, text |-> <<>>]}
    \cup {[cancelled |-> FALSE, text |-> x] : x \in LongTexts}

\* One day with two activities, opened without the parameter dia.
NoteInit ==
  /\ pc = "loading"
  /\ itinerary = <<Day(1, <<"act0", "act1">>)>>
  /\ diaryHtml \in {"hidden", "shown"}
  /\ anchors = AllAnchors
  /\ url = Null
  /\ localStorage \in InitialStores(itinerary)
  /\ tabs = <<>>
  /\ panels = <<>>
  /\ tabPanels = [x \in IdUniverse |-> 0]
  /\ ui = [k \in ItemKeys(itinerary) |-> NoUi]
  /\ diary = [attached |-> FALSE, list |-> <<>>, hidden |-> (diaryHtml = "hidden"), msgs |-> 0]
  /\ focused = 0
  /\ opened = Null
  /\ lastLoad = NoLoad
  /\ tog = NoTog
  /\ noteEdit = NoEdit

NoteNext ==
  \/ DOMContentLoaded
  \/ \E i \in DOMAIN tabs : TabClick(i)
  \/ \E k \in DOMAIN ui : ToggleDone(k)
  \/ \E k \in DOMAIN ui, answer \in LongAnswers : EditNote(k, answer)

NoteSpec == NoteInit /\ [][NoteNext]_vars

(***************************************************************************)
(* Navigation alone: the pages of Init, with the loads, the clicks on tabs *)
(* and day buttons and the keys, and no click inside a schedule.           *)
(***************************************************************************)
TabNext ==
  \/ DOMContentLoaded
  \/ \E dia \in UrlValues \cup {Null} : Reload(dia)
  \/ \E i \in DOMAIN tabs : TabClick(i)
  \/ \E key \in Keys : \E target \in EventTargets(key) : KeyDown(key, target)
  \/ \E d \in DOMAIN itinerary : PrevClick(d)
  \/ \E d \in DOMAIN itinerary : NextClick(d)

TabSpec == Init /\ [][TabNext]_vars

(***************************************************************************)
(* Documents in which the description of an activity holds a list: one day *)
(* of two activities, the list in the first or in the second of them.      *)
(***************************************************************************)
NestedItineraries ==
  { <<Day(1, <<"actList", "act1">>)>>,
    <<Day(1, <<"act0", "actList">>)>> }

NestedInit ==
  /\ pc = "loading"
  /\ itinerary \in NestedItineraries
  /\ diaryHtml = "shown"
  /\ anchors = AllAnchors
  /\ url = Null
  /\ localStorage = [lastDay |-> Null, item |-> [k \in ItemKeys(itinerary) |-> Absent]]
  /\ tabs = <<>>
  /\ panels = <<>>
  /\ tabPanels = [x \in IdUniverse |-> 0]
  /\ ui = [k \in ItemKeys(itinerary) |-> NoUi]
  /\ diary = [attached |-> FALSE, list |-> <<>>, hidden |-> FALSE, msgs |-> 0]
  /\ focused = 0
  /\ opened = Null
  /\ lastLoad = NoLoad
  /\ tog = NoTog
  /\ noteEdit = NoEdit

NestedNext ==
  \/ DOMContentLoaded
  \/ \E i \in DOMAIN tabs : TabClick(i)
  \/ \E k \in DOMAIN ui : ToggleDone(k)
  \/ \E k \in DOMAIN ui, answer \in PromptAnswers : EditNote(k, answer)

NestedSpec == NestedInit /\ [][NestedNext]_vars

(***************************************************************************)
(* Observers used by the properties                                        *)
(***************************************************************************)
SelectedTabs == {i \in DOMAIN tabs : tabs[i].selected}

VisiblePanels == {i \in DOMAIN panels : panels[i].active /\ ~panels[i].hidden}

DayIds == {ToStr(itinerary[i].id) : i \in DOMAIN itinerary}

HasTab(id) == TabById(tabs, TabElemId(id)) # 0

FirstDayId == ToStr(itinerary[1].id)

(***************************************************************************)
(* Properties                                                              *)
(***************************************************************************)
\* C1: after every openTab(id), whatever called it, exactly one tab of the
\* tab list is selected and it is the tab of id.
C1_ExactlyOneTabSelected ==
  opened # Null =>
    /\ Cardinality(SelectedTabs) = 1
    /\ \A i \in SelectedTabs : GetIdFromTab(tabs[i]) = opened

\* C2: after openTab(id), the panel of id exists and is shown, every other
\* panel is hidden, so exactly one panel is visible and it is the panel of
\* the selected tab.
C2_ActivePanelShown ==
  opened # Null =>
    /\ tabPanels[opened] # 0
    /\ VisiblePanels = {tabPanels[opened]}
    /\ \A i \in DOMAIN panels : i # tabPanels[opened] => panels[i].hidden /\ ~panels[i].active
    /\ SelectedId(tabs) = opened

\* A source of the id has a value: the parameter or the key is there and is not empty.
HasValue(x) == x # Null /\ x # ""

C4_FirstDayByDefault ==
  (lastLoad.fresh /\ lastLoad.dia = Null /\ lastLoad.stored = Null /\ Len(itinerary) > 0) =>
    /\ SelectedTabs = {1}
    /\ GetIdFromTab(tabs[1]) = FirstDayId
    /\ PanelShown(FirstDayId)
    /\ VisiblePanels = {tabPanels[FirstDayId]}
    /\ panels[tabPanels[FirstDayId]].id = PanelElemId(FirstDayId)

C4_Witness ==
  /\ lastLoad.fresh /\ lastLoad.dia = Null /\ lastLoad.stored = Null
  /\ Len(itinerary) > 1
  /\ tabs[1].selected
  /\ PanelShown(FirstDayId)

\* C5: once a tab has been activated, the parameter dia is d exactly when the
\* selected tab is the tab of day d, and the parameter is not there when the
\* diary was activated or the diary tab is selected.
C5_UrlMirrorsActiveTab ==
  opened # Null =>
    /\ \A i \in DOMAIN itinerary :
         (url = ToStr(itinerary[i].id)) <=> (i \in SelectedTabs)
    /\ opened = "diary" => url = Null
    /\ \A i \in SelectedTabs : GetIdFromTab(tabs[i]) = "diary" => url = Null
    /\ opened \in DayIds => url = opened

C5_Witness ==
  /\ opened = "diary" /\ url = Null /\ SelectedId(tabs) = "diary"
  /\ localStorage.lastDay = "2"

\* C6: openTab(d) of a day tab writes lastDay = d, openTab('diary') leaves
\* lastDay as it is, and lastDay changes only to the id of the day tab that
\* the step activates, so lastDay is the day tab activated latest.
C6_LastDayIsLatestDayTab ==
  /\ []((opened \in DayIds) => localStorage.lastDay = opened)
  /\ [][opened' = "diary" => localStorage'.lastDay = localStorage.lastDay]_vars
  /\ [][localStorage'.lastDay # localStorage.lastDay =>
          (localStorage'.lastDay \in DayIds /\ SelectedId(tabs') = localStorage'.lastDay)]_vars

\* A page load that follows a session, with the parameter dia that session
\* left or without the parameter.
ReopenedSession ==
  lastLoad.fresh /\ lastLoad.prev # Null /\ lastLoad.dia \in {Null, lastLoad.prevUrl}

PanelsWithId(ps, elemId) == {i \in DOMAIN ps : ps[i].id = elemId}

\* C8: buildTabs creates no panel, a step creates a panel only for the id it
\* activates, an activated tab has its panel, and no id ever has two panels.
C8_PanelsLazyAndCached ==
  /\ [](\A i, j \in DOMAIN panels : panels[i].id = panels[j].id => i = j)
  /\ []((opened # Null /\ HasTab(opened)) =>
          /\ Cardinality(PanelsWithId(panels, PanelElemId(opened))) = 1
          /\ tabPanels[opened] \in PanelsWithId(panels, PanelElemId(opened)))
  /\ [][\A i \in DOMAIN panels' :
          (lastLoad'.fresh \/ i > Len(panels)) => panels'[i].id = PanelElemId(opened')]_vars
  /\ [][~lastLoad'.fresh =>
          /\ Len(panels') >= Len(panels)
          /\ \A i \in DOMAIN panels : panels'[i].id = panels[i].id
          /\ \A x \in IdUniverse : tabPanels[x] # 0 => tabPanels'[x] = tabPanels[x]]_vars

\* A panel created earlier in the session is shown again.
C8_Witness ==
  /\ Len(panels) = 3
  /\ opened # Null
  /\ PanelShown(opened)
  /\ tabPanels[opened] = 1

\* The note a stored value holds, as the handlers read it.
PersistedNote(v) ==
  LET r == JSONparse(v)
  IN  IF r.threw \/ r.isNull \/ "note" \notin r.obj.fields
      THEN [has |-> FALSE, text |-> <<>>]
      ELSE [has |-> TRUE, text |-> r.obj.note]

\* C9: after two completion toggles in a row on one item its completed flag,
\* displayed and persisted, is what it was before them, and so is its
\* persisted note.
C9_DoubleToggleRestores ==
  tog.n = 2 =>
    /\ ui[tog.key].completed = tog.completed0
    /\ CountsAsCompleted(localStorage.item[tog.key]) = CountsAsCompleted(tog.stored0)
    /\ CountsAsCompleted(localStorage.item[tog.key]) = ui[tog.key].completed
    /\ PersistedNote(localStorage.item[tog.key]) = PersistedNote(tog.stored0)

C9_Witness ==
  /\ tog.n = 2
  /\ tog.completed0
  /\ PersistedNote(tog.stored0).has
  /\ ui[tog.key].completed

\* Number of persisted entries of day number d whose completed flag is true.
PersistedCompleted(d) ==
  Cardinality({k \in DOMAIN localStorage.item :
                 /\ k[1] = itinerary[d].id
                 /\ localStorage.item[k].kind = "json"
                 /\ "completed" \in localStorage.item[k].obj.fields
                 /\ localStorage.item[k].obj.completed})

NotedKeys(store) ==
  {k \in DOMAIN store.item :
     /\ Len(k) = 2
     /\ store.item[k].kind = "json"
     /\ "note" \in store.item[k].obj.fields
     /\ store.item[k].obj.note # <<>>}

\* list is sorted by day and has one entry per key of K, with the note that
\* store holds for it.
DiaryListOf(list, store, K) ==
  /\ \A i, j \in DOMAIN list : i < j => list[i].day <= list[j].day
  /\ Len(list) = Cardinality(K)
  /\ \A d \in {k[1] : k \in K} \cup {e.day : e \in {list[i] : i \in DOMAIN list}} :
       \A n \in PromptTexts :
         Cardinality({i \in DOMAIN list : list[i] = [day |-> d, note |-> n]})
           = Cardinality({k \in K : k[1] = d /\ store.item[k].obj.note = n})

\* C11: every run of updateDiary that gets past its early return leaves a
\* list sorted by day with exactly one entry per stored key day-N-item-I
\* that holds a non-empty note: none for a key without a note, with another
\* name or with an unparsable value.
C11_DiaryListExact ==
  [][DiaryListOf(diary'.list, localStorage', NotedKeys(localStorage'))]_vars

\* Notes of days 0, 1 and 2 are listed in that order, beside a key with
\* another name that holds a note and a key with an unparsable value.
C11_Witness ==
  /\ diary.attached
  /\ Len(diary.list) = 2
  /\ diary.list[1].day = 0 /\ diary.list[2].day = 2
  /\ localStorage.item[<<"day-1-item-x">>] = Noted
  /\ localStorage.item[<<"theme">>] = Noted
  /\ localStorage.item[ItemKey(1, 0)] = Garbage

\* C12: whenever the diary panel is displayed with the diary section in it,
\* the rendered list is the list of the persisted non-empty notes, however the
\* note edits were interleaved with the tab activations.
C12_DiaryNeverStale ==
  (pc = "ready" /\ PanelShown("diary") /\ diary.attached) =>
    DiaryListOf(diary.list, localStorage, NotedKeys(localStorage))

\* C13: when a note edit clears the note of an item that had one, the
\* aggregation the handler runs (the diary section being in the document)
\* leaves no entry for that item and exactly the entries of the other items
\* that hold a note.
C13_ClearRemovesEntry ==
  (noteEdit.on /\ noteEdit.cleared /\ noteEdit.had /\ diary.attached) =>
    /\ noteEdit.key \notin NotedKeys(localStorage)
    /\ DiaryListOf(diary.list, localStorage, NotedKeys(localStorage) \ {noteEdit.key})
    /\ ui[noteEdit.key].noteDisplay = <<>>

\* The note of one item was cleared and the entry of the other item remains.
C13_Witness ==
  /\ noteEdit.on /\ noteEdit.cleared /\ noteEdit.had /\ diary.attached
  /\ Len(diary.list) = 1
  /\ NotedKeys(localStorage) = DOMAIN ui \ {noteEdit.key}

\* t is text without its leading and trailing spaces.
Stripped(t, text) ==
  /\ t = <<>> \/ (t[1] # " " /\ t[Len(t)] # " ")
  /\ \E i \in 0..Len(text) :
       /\ i + Len(t) <= Len(text)
       /\ SubSeq(text, i + 1, i + Len(t)) = t
       /\ \A p \in 1..Len(text) : (p <= i \/ p > i + Len(t)) => text[p] = " "

\* The completed flag a stored value holds.
StoredCompleted(v) ==
  v.kind = "json" /\ "completed" \in v.obj.fields /\ v.obj.completed

\* C14: a note edit that is not cancelled leaves a stored entry for the
\* item; the entry holds the text without its surrounding spaces as note when
\* that is not empty and no note field when it is, and its completed flag is
\* the one the store held before.
C14_SetNoteTrims ==
  noteEdit.on =>
    LET v == localStorage.item[noteEdit.key]
    IN  /\ v.kind = "json"
        /\ \E t \in LongTexts :
             /\ Stripped(t, noteEdit.text)
             /\ IF t = <<>> THEN "note" \notin v.obj.fields
                ELSE "note" \in v.obj.fields /\ v.obj.note = t
        /\ StoredCompleted(v) = noteEdit.done

\* The note of a completed item was cleared: its entry is still stored,
\* completed and without a note field.
C14_Witness ==
  /\ noteEdit.on /\ noteEdit.text = <<" ", " ">> /\ noteEdit.had
  /\ localStorage.item[noteEdit.key].kind = "json"
  /\ localStorage.item[noteEdit.key].obj.fields = {"completed"}
  /\ localStorage.item[noteEdit.key].obj.completed

\* The item keys of day number d whose stored value is absent or unparsable.
Unreadable(d) ==
  {k \in DOMAIN ui : k[1] = itinerary[d].id /\ localStorage.item[k].kind \in {"absent", "garbage"}}

\* C15: an item whose stored value is absent or cannot be parsed is shown
\* not completed and without note once its panel exists, is not counted in
\* the label of its day, has no diary entry, and the page does not fail; a
\* toggle or a note edit on any item leaves a well-formed entry.
C15_UnreadableDefaults ==
  /\ pc # "failed"
  /\ pc = "ready" =>
       \A d \in DOMAIN itinerary :
         LET lab == tabs[d].label
             total == Len(itinerary[d].schedule)
         IN  /\ \A k \in Unreadable(d) :
                  tabPanels[ToStr(k[1])] # 0 => (~ui[k].completed /\ ui[k].noteDisplay = <<>>)
             /\ Unreadable(d) # {} =>
                  (lab.kind = "count" /\ lab.done <= total - Cardinality(Unreadable(d)))
             /\ Cardinality({i \in DOMAIN diary.list : diary.list[i].day = itinerary[d].id})
                  <= total - Cardinality(Unreadable(d))
  /\ noteEdit.on => localStorage.item[noteEdit.key].kind = "json"
  /\ tog.n > 0 => localStorage.item[tog.key].kind = "json"

\* One item of day 1 is unparsable and shown as not done, the other is
\* completed and has its note in the diary.
C15_Witness ==
  /\ pc = "ready"
  /\ \E k \in DOMAIN ui :
       /\ localStorage.item[k] = Garbage
       /\ tabPanels[ToStr(k[1])] # 0
       /\ ~ui[k].completed
  /\ tabs[1].label = [kind |-> "count", day |-> 1, done |-> 1, total |-> 2]
  /\ diary.attached /\ Len(diary.list) = 1

\* C16: page initialization ends without an uncaught exception, whichever
\* of the tab list container, the panel container and the diary section the
\* document lacks.
C16_LoadNeverFails == pc # "failed"

\* The tab a key that moves must reach from the selected tab number c of n.
Reached(key, c, n) ==
  CASE key \in {"ArrowRight", "Right"} -> IF c = n THEN 1 ELSE c + 1
    [] key \in {"ArrowLeft", "Left"} -> IF c = 1 THEN n ELSE c - 1
    [] key = "Home" -> 1
    [] key = "End" -> n

\* C17: a keydown of an arrow, Home or End focuses an existing tab and makes
\* it the one selected tab; Home reaches the first tab and End the last; when
\* a tab is selected, ArrowRight reaches the tab after it and ArrowLeft the tab
\* before it, wrapping around the ends of the list.
C17_ArrowsCycle ==
  [][\A key \in {"ArrowRight", "Right", "ArrowLeft", "Left", "Home", "End"} :
       (focused' # 0 /\ \E target \in EventTargets(key) : KeyDown(key, target)) =>
         /\ Len(tabs') = Len(tabs)
         /\ focused' \in DOMAIN tabs
         /\ SelectedTabs' = {focused'}
         /\ opened' = GetIdFromTab(tabs[focused'])
         /\ (key \in {"Home", "End"} \/ Cardinality(SelectedTabs) = 1) =>
              \A c \in (IF key \in {"Home", "End"} THEN {0} ELSE SelectedTabs) :
                focused' = Reached(key, c, Len(tabs))]_vars

\* The last of three tabs holds the focus and is selected, with its panel
\* shown, after a key moved there.
C17_Witness ==
  /\ Len(tabs) = 3
  /\ focused = 3
  /\ SelectedTabs = {3}
  /\ PanelShown("diary")
  /\ Len(panels) = 2

\* C18: Enter or space on a focused tab selects that tab, whichever tab was
\* selected, and moves the focus nowhere; a key that is neither of these nor
\* an arrow, Home or End changes nothing of the page.
C18_ActivationKeys ==
  [][\A key \in Keys \ {"ArrowRight", "Right", "ArrowLeft", "Left", "Home", "End"} :
       \A target \in DOMAIN tabs :
         (/\ focused' = 0 /\ lastLoad' = NoLoad /\ tog' = NoTog /\ noteEdit' = NoEdit
          /\ KeyDown(key, target)) =>
           IF key \in {"Enter", " ", "Spacebar"}
           THEN /\ SelectedTabs' = {target}
                /\ opened' = GetIdFromTab(tabs[target])
                /\ tabPanels'[opened'] # 0
                /\ ~panels'[tabPanels'[opened']].hidden
                /\ focused' = 0
           ELSE UNCHANGED <<tabs, panels, tabPanels, url, localStorage, ui, diary>>]_vars

\* The diary tab was activated in place after day 2: it is selected, its
\* panel is shown beside the hidden panel of day 2, and no focus call was made.
C18_Witness ==
  /\ Len(tabs) = 3
  /\ SelectedTabs = {3}
  /\ focused = 0
  /\ opened = "diary"
  /\ localStorage.lastDay = "2"
  /\ Len(panels) = 2

\* C19: whenever the diary panel exists, it shows the message 'Nenhuma nota
\* registrada ainda.' once when no stored item entry holds a non-empty note,
\* and not at all when one does.
C19_MessageIffNoNotes ==
  (pc = "ready" /\ tabPanels["diary"] # 0) =>
    diary.msgs = (IF NotedKeys(localStorage) = {} THEN 1 ELSE 0)

\* C20: the tab of day N reads 'Dia N' alone when the day has no item,
\* 'Dia N' with a check mark when every item of the day is stored as
\* completed, and 'Dia N (X/Y)' with X < Y otherwise, X being the number of
\* items stored as completed and Y the number of items of the day.
C20_LabelFormat ==
  pc = "ready" =>
    \A d \in DOMAIN itinerary :
      LET lab == tabs[d].label
          id == itinerary[d].id
          total == Len(itinerary[d].schedule)
          done == {i \in 0..(total - 1) : StoredCompleted(localStorage.item[ItemKey(id, i)])}
      IN  /\ lab.day = id
          /\ lab.kind \in {"base", "check", "count"}
          /\ lab.kind = "base" <=> total = 0
          /\ lab.kind = "check" <=> (total > 0 /\ Cardinality(done) = total)
          /\ lab.kind = "count" =>
               (lab.total = total /\ lab.done = Cardinality(done) /\ lab.done < lab.total)

\* Day 1 is complete and shows the check mark beside day 2, which has no
\* item and shows its name alone.
C20_Witness ==
  /\ pc = "ready"
  /\ Len(itinerary) = 2
  /\ tabs[1].label = [kind |-> "check", day |-> 1, done |-> 0, total |-> 0]
  /\ tabs[2].label = [kind |-> "base", day |-> 2, done |-> 0, total |-> 0]
  /\ tog.n = 1

\* C21: the controls of the li of an activity of a day panel read and write
\* the key made of the day and of the position of the activity in the day's
\* extracted list, and the index in the key of every li with controls is
\* smaller than the number of activities the progress of the day counts.
C21_KeyIsEntryPosition ==
  \A key \in DOMAIN ui :
    ui[key].entry >= 0 =>
      /\ key[2] < Len(itinerary[FindDay(ToStr(key[1]))].schedule)
      /\ ~ui[key].nested => key = ItemKey(key[1], ui[key].entry)

\* C22: the persisted lastDay, when there is one, is the id of a day of the
\* itinerary, which has a tab.
C22_LastDayIsADay ==
  localStorage.lastDay # Null =>
    /\ FindDay(localStorage.lastDay) # 0
    /\ TabById(tabs, TabElemId(localStorage.lastDay)) # 0

\* C23: the panel of a day offers the previous-day button exactly when the
\* itinerary has a day with a smaller id and the next-day button exactly when
\* it has one with a larger id, and a click on either activates a day of the
\* itinerary: its tab is the selected one and its panel is the one shown.
C23_DayButtonsLeadToADay ==
  [][\A d \in DOMAIN itinerary :
       /\ PanelShown(ToStr(itinerary[d].id)) =>
            /\ PrevOffered(itinerary[d]) <=>
                 \E e \in DOMAIN itinerary : itinerary[e].id < itinerary[d].id
            /\ NextOffered(itinerary[d]) <=>
                 \E e \in DOMAIN itinerary : itinerary[e].id > itinerary[d].id
       /\ (PrevClick(d) \/ NextClick(d)) =>
            /\ FindDay(opened') # 0
            /\ \E i \in DOMAIN tabs' :
                 /\ tabs'[i].selected
                 /\ GetIdFromTab(tabs'[i]) = opened'
            /\ tabPanels'[opened'] # 0
            /\ ~panels'[tabPanels'[opened']].hidden]_vars

\* C24: a click on a note button whose prompt is cancelled changes no
\* persisted entry and creates none, no displayed note or item state, nothing
\* of the diary, no tab label or selection, no panel and not the URL.
C24_CancelChangesNothing ==
  [][noteEdit'.cancelled =>
       UNCHANGED <<localStorage, ui, diary, tabs, panels, tabPanels, url>>]_vars

\* A prompt was cancelled on the displayed day, one item of which has no
\* persisted entry and the other a note.
C24_Witness ==
  /\ noteEdit.cancelled
  /\ PanelShown("1")
  /\ localStorage.item[ItemKey(1, 0)].kind = "absent"
  /\ NotedKeys(localStorage) = {ItemKey(1, 1)}

\* C25: a completion toggle or a note edit made with the controls of the
\* activity at position i of day d writes the entry of key day-d-item-i and
\* nothing else: every other persisted entry, lastDay, the URL parameter, the
\* selection of the tabs and the label of every tab of another day stay as
\* they were, and a toggle leaves the diary list as it was.
C25_WritesOnlyItsKey ==
  [][\A k \in DOMAIN ui :
       ((tog'.n > 0 /\ tog'.key = k) \/ (noteEdit'.on /\ noteEdit'.key = k)) =>
         (~ui[k].nested =>
            /\ \A key \in DOMAIN localStorage.item \ {ItemKey(k[1], ui[k].entry)} :
                 localStorage'.item[key] = localStorage.item[key]
            /\ localStorage'.lastDay = localStorage.lastDay
            /\ url' = url
            /\ Len(tabs') = Len(tabs)
            /\ \A j \in DOMAIN tabs :
                 /\ tabs'[j].selected = tabs[j].selected
                 /\ tabs[j].id # TabElemId(ToStr(k[1])) => tabs'[j] = tabs[j]
            /\ tog'.n > 0 => diary'.list = diary.list)]_vars

====
